---------------------------- MODULE Spec2Model ----------------------------
(***************************************************************************)
(* A model of manify.c: the flex scanner that turns bstrlib.txt into one   *)
(* aggregate troff page (stdout) and one page per function (man3/NAME.3).  *)
(*                                                                         *)
(* Text is a sequence of one-character strings.  A position p in a text s  *)
(* (0 <= p <= Len(s)) stands before character s[p+1].                      *)
(***************************************************************************)
EXTENDS Integers, Sequences, FiniteSets, TLC

(***************************************************************************)
(* Character classes                                                       *)
(***************************************************************************)
NL == "\n"
SP == " "
TAB == "\t"
BSL == "\\"
APO == "'"
DOT == "."

Digit == {"0","1","2","3","4","5","6","7","8","9"}
Lower == {"a","b","c","d","e","f","g","h","i","j","k","l","m",
          "n","o","p","q","r","s","t","u","v","w","x","y","z"}
Upper == {"A","B","C","D","E","F","G","H","I","J","K","L","M",
          "N","O","P","Q","R","S","T","U","V","W","X","Y","Z"}
\* form feed and vertical tab (the string of VT holds the character 0x0b)
FF == "\f"
VT == ""

\* isspace() of the C locale: [[:space:]]
Space == {" ", "\t", "\n", "\r", FF, VT}

\* toupper() on one character (str2upper applies it to every character)
UpperOf ==
  [c \in Lower |->
     CASE c = "a" -> "A" [] c = "b" -> "B" [] c = "c" -> "C" [] c = "d" -> "D"
       [] c = "e" -> "E" [] c = "f" -> "F" [] c = "g" -> "G" [] c = "h" -> "H"
       [] c = "i" -> "I" [] c = "j" -> "J" [] c = "k" -> "K" [] c = "l" -> "L"
       [] c = "m" -> "M" [] c = "n" -> "N" [] c = "o" -> "O" [] c = "p" -> "P"
       [] c = "q" -> "Q" [] c = "r" -> "R" [] c = "s" -> "S" [] c = "t" -> "T"
       [] c = "u" -> "U" [] c = "v" -> "V" [] c = "w" -> "W" [] c = "x" -> "X"
       [] c = "y" -> "Y" [] OTHER -> "Z"]

toupper(c) == IF c \in Lower THEN UpperOf[c] ELSE c

str2upper(s) == [i \in 1..Len(s) |-> toupper(s[i])]

(***************************************************************************)
(* Regular expressions of the scanner, as syntax trees, and the set of     *)
(* positions at which a match that starts in P can end.                    *)
(***************************************************************************)
In(cs) == [t |-> "in", cs |-> cs]
NotIn(cs) == [t |-> "notin", cs |-> cs]
Ch(c) == In({c})
Lit(w) == [t |-> "lit", w |-> w]
Cat(rs) == [t |-> "cat", rs |-> rs]
Alt(rs) == [t |-> "alt", rs |-> rs]
\* r{lo,hi}; hi = -1 stands for no upper limit
Rep(r, lo, hi) == [t |-> "rep", r |-> r, lo |-> lo, hi |-> hi]
Star(r) == Rep(r, 0, -1)
Plus(r) == Rep(r, 1, -1)
Opt(r) == Rep(r, 0, 1)
\* flex's '.': any character but a newline
AnyCh == NotIn({NL})

\* a character class r accepts the character c
Accepts(r, c) == IF r.t = "in" THEN c \in r.cs ELSE c \notin r.cs

\* r{lo,hi} for a character class r: the runs of accepted characters
RunEnds(r, lo, hi, s, P) ==
  UNION {{q \in (p + lo)..(IF hi = -1 \/ p + hi > Len(s) THEN Len(s) ELSE p + hi) :
            \A j \in (p + 1)..q : Accepts(r, s[j])} : p \in P}

RECURSIVE Ends(_, _, _)
Ends(re, s, P) ==
  IF P = {} THEN {}
  ELSE CASE re.t = "in" ->
              {p + 1 : p \in {q \in P : q < Len(s) /\ s[q + 1] \in re.cs}}
         [] re.t = "notin" ->
              {p + 1 : p \in {q \in P : q < Len(s) /\ s[q + 1] \notin re.cs}}
         [] re.t = "lit" ->
              {p + Len(re.w) :
                 p \in {q \in P : /\ q + Len(re.w) <= Len(s)
                                  /\ SubSeq(s, q + 1, q + Len(re.w)) = re.w}}
         [] re.t = "cat" ->
              IF re.rs = <<>> THEN P
              ELSE Ends(Cat(Tail(re.rs)), s, Ends(Head(re.rs), s, P))
         [] re.t = "alt" ->
              UNION {Ends(re.rs[i], s, P) : i \in DOMAIN re.rs}
         [] re.t = "rep" /\ re.r.t \in {"in", "notin"} ->
              RunEnds(re.r, re.lo, re.hi, s, P)
         [] OTHER -> \* "rep" of a compound expression
              IF re.hi = 0 THEN P
              ELSE LET hi1 == IF re.hi = -1 THEN -1 ELSE re.hi - 1
                       one == Ends(re.r, s, P)
                   IN  IF re.lo > 0
                       THEN Ends(Rep(re.r, re.lo - 1, hi1), s, one)
                       ELSE P \cup Ends(Rep(re.r, 0, hi1), s, one \ P)

SetMax(S) == CHOOSE x \in S : \A y \in S : y <= x

\* length of the longest non-empty match of re in s that starts at pos, or 0
MatchLen(re, s, pos) ==
  LET E == Ends(re, s, {pos}) \ {pos}
  IN  IF E = {} THEN 0 ELSE SetMax(E) - pos

(***************************************************************************)
(* Named patterns (the definitions section of the scanner)                 *)
(***************************************************************************)
HWS == In({SP, TAB})
NONBLANK == Cat(<<Star(HWS), NotIn({SP, TAB, NL}), Star(AnyCh), Ch(NL)>>)
OL_MARKER == In({")", "."})
CID == In(Lower \cup Upper \cup Digit \cup {"_"})

\* the literal strings of the patterns and of the C code
Str ==
  [ Title |-> <<"B","e","t","t","e","r"," ","S","t","r","i","n","g"," ","l",
        "i","b","r","a","r","y","\n","-","-","-","-","-","-","-","-","-","-",
        "-","-","-","-","-","-","-","-","-","-","-","\n">>,
    TheFunctions |-> <<"T","h","e"," ","f","u","n","c","t","i","o","n","s",
        "\n">>,
    CaretTheMacros |-> <<"^","T","h","e"," ","m","a","c","r","o","s","\n",
        "\n">>,
    UnicodeFunctions |-> <<"U","n","i","c","o","d","e"," ","f","u","n","c",
        "t","i","o","n","s","\n">>,
    BjornAugestad |-> <<"B","j","o","r","n"," ","A","u","g","e","s","t","a",
        "d","\n">>,
    Bstrdir |-> <<"B","S","T","R","D","I","R"," ","="," ">>,
    Bstrlib |-> <<"B","S","T","R","L","I","B","_">>,
    Extern |-> <<"e","x","t","e","r","n"," ">>,
    man3 |-> <<"m","a","n","3","/">>,
    dot3 |-> <<".","3">> ]

(***************************************************************************)
(* The rules section: start conditions, patterns, in the order of the      *)
(* file.  bol marks a rule that starts with '^'.                           *)
(***************************************************************************)
Rule(id, sc, bol, re) == [id |-> id, sc |-> sc, bol |-> bol, re |-> re]

\* Better\ String\ library\n---------------------\n
RE_title == Lit(Str.Title)

\* ^\ {4}\.{5,}\n\n|The\ functions\n-{5,}\n\n|^The\ macros\n\n{NONBLANK}+\n\n
\* Only the '^' that opens the rule anchors it; the one inside the third
\* alternative is an ordinary character of the pattern.
RE_func_section ==
  Alt(<<Cat(<<Rep(Ch(SP), 4, 4), Rep(Ch(DOT), 5, -1), Ch(NL), Ch(NL)>>),
        Cat(<<Lit(Str.TheFunctions), Rep(Ch("-"), 5, -1), Ch(NL), Ch(NL)>>),
        Cat(<<Lit(Str.CaretTheMacros), Plus(NONBLANK), Ch(NL), Ch(NL)>>)>>)

\* ={5,}\n
RE_func_exit == Cat(<<Rep(Ch("="), 5, -1), Ch(NL)>>)

\* {NONBLANK}+
RE_nonblanks == Plus(NONBLANK)

\* {NONBLANK}*{HWS}*[^\ \t\n].*:\n\n
RE_func_colon ==
  Cat(<<Star(NONBLANK), Star(HWS), NotIn({SP, TAB, NL}), Star(AnyCh),
        Ch(":"), Ch(NL), Ch(NL)>>)

\* \n
RE_nl == Ch(NL)

\* Unicode\ functions\n-{3,}\n\n
RE_uni_head ==
  Cat(<<Lit(Str.UnicodeFunctions), Rep(Ch("-"), 3, -1), Ch(NL), Ch(NL)>>)

\* \ +\.{3,}\n\n
RE_uni_end == Cat(<<Plus(Ch(SP)), Rep(Ch(DOT), 3, -1), Ch(NL), Ch(NL)>>)

\* ^.{3,}\n-{3,}\n
RE_h1 == Cat(<<Rep(AnyCh, 3, -1), Ch(NL), Rep(Ch("-"), 3, -1), Ch(NL)>>)

\* ^.{3,}\n\.{3,}\n
RE_h2 == Cat(<<Rep(AnyCh, 3, -1), Ch(NL), Rep(Ch(DOT), 3, -1), Ch(NL)>>)

\* ^={3,}\n
RE_divider == Cat(<<Rep(Ch("="), 3, -1), Ch(NL)>>)

\* {HWS}*\n
RE_blank == Cat(<<Star(HWS), Ch(NL)>>)

\* \ *[[:digit:]]+{OL_MARKER}\ .*\n
RE_ol_item ==
  Cat(<<Star(Ch(SP)), Plus(In(Digit)), OL_MARKER, Ch(SP), Star(AnyCh), Ch(NL)>>)

\* .+\n
RE_line == Cat(<<Plus(AnyCh), Ch(NL)>>)

\* \ *-\ .*\n
RE_ul_item == Cat(<<Star(Ch(SP)), Ch("-"), Ch(SP), Star(AnyCh), Ch(NL)>>)

\* \ {4,}.*\n
RE_bq_line == Cat(<<Rep(Ch(SP), 4, -1), Star(AnyCh), Ch(NL)>>)

\* \n\ {0,3}[^\ ]
RE_bq_end == Cat(<<Ch(NL), Rep(Ch(SP), 0, 3), NotIn({SP})>>)

\* BSTRDIR\ =\ .+\n{NONBLANK}+\n
RE_make_start ==
  Cat(<<Lit(Str.Bstrdir), Plus(AnyCh), Ch(NL), Plus(NONBLANK), Ch(NL)>>)

\* {NONBLANK}\t.+\n{NONBLANK}+\n
RE_make_cont ==
  Cat(<<NONBLANK, Ch(TAB), Plus(AnyCh), Ch(NL), Plus(NONBLANK), Ch(NL)>>)

\* {NONBLANK}(\ *-{3,}){2,}\ *\n{NONBLANK}*
RE_table_start ==
  Cat(<<NONBLANK,
        Rep(Cat(<<Star(Ch(SP)), Rep(Ch("-"), 3, -1)>>), 2, -1),
        Star(Ch(SP)), Ch(NL), Star(NONBLANK)>>)

\* .*\ {3,}.*\n|\n
RE_table_cont ==
  Alt(<<Cat(<<Star(AnyCh), Rep(Ch(SP), 3, -1), Star(AnyCh), Ch(NL)>>),
        Ch(NL)>>)

\* {NONBLANK}
RE_nonblank == NONBLANK

\* {NONBLANK}*Bjorn\ Augestad\n{NONBLANK}*
RE_ack == Cat(<<Star(NONBLANK), Lit(Str.BjornAugestad), Star(NONBLANK)>>)

\* BSTRLIB_[A-Z0-9_]+\n\n{NONBLANK}+\n
RE_macrodesc ==
  Cat(<<Lit(Str.Bstrlib), Plus(In(Upper \cup Digit \cup {"_"})), Ch(NL), Ch(NL),
        Plus(NONBLANK), Ch(NL)>>)

\* {NONBLANK}?([a-zA-Z0-9_]+\.[a-z]+\ {2,}-\ .+\n)+
RE_files ==
  Cat(<<Opt(NONBLANK),
        Plus(Cat(<<Plus(CID), Ch(DOT), Plus(In(Lower)), Rep(Ch(SP), 2, -1),
                   Ch("-"), Ch(SP), Plus(AnyCh), Ch(NL)>>))>>)

\* [[:^space:]]{-}[[:digit:]]{-}[-].*\n(.+\n)*
RE_par ==
  Cat(<<NotIn(Space \cup Digit \cup {"-"}), Star(AnyCh), Ch(NL),
        Star(Cat(<<Plus(AnyCh), Ch(NL)>>))>>)

Rules ==
  << Rule("title",        {"INITIAL"},              FALSE, RE_title),
     Rule("func_section", {"INITIAL", "FUNC_BODY"}, TRUE,  RE_func_section),
     Rule("func_exit",    {"FUNC_BODY"},            FALSE, RE_func_exit),
     Rule("func_head",    {"FUNC_HEAD"},            FALSE, RE_nonblanks),
     Rule("func_colon",   {"FUNC_BODY"},            FALSE, RE_func_colon),
     Rule("func_ex",      {"FUNC_EX"},              FALSE, RE_nonblanks),
     Rule("func_par",     {"FUNC_BODY"},            FALSE, RE_nonblanks),
     Rule("func_blank",   {"FUNC_BODY"},            FALSE, RE_nl),
     Rule("uni_head",     {"INITIAL"},              FALSE, RE_uni_head),
     Rule("uni_end",      {"UNIPARS"},              FALSE, RE_uni_end),
     Rule("uni_par",      {"UNIPARS"},              FALSE, RE_nonblanks),
     Rule("h1",           {"INITIAL"},              TRUE,  RE_h1),
     Rule("h2",           {"INITIAL"},              TRUE,  RE_h2),
     Rule("divider",      {"INITIAL"},              TRUE,  RE_divider),
     Rule("blank",        {"INITIAL"},              FALSE, RE_blank),
     Rule("ol_item",      {"INITIAL", "OL"},        FALSE, RE_ol_item),
     Rule("ol_cont",      {"OL"},                   FALSE, RE_line),
     Rule("ol_end",       {"OL"},                   FALSE, RE_nl),
     Rule("ul_item",      {"INITIAL", "UL"},        FALSE, RE_ul_item),
     Rule("ul_cont",      {"UL"},                   FALSE, RE_line),
     Rule("ul_end",       {"UL"},                   FALSE, RE_nl),
     Rule("bq_start",     {"INITIAL"},              FALSE, RE_bq_line),
     Rule("bq_cont",      {"BQ"},                   FALSE, RE_bq_line),
     Rule("bq_blank",     {"BQ"},                   FALSE, RE_nl),
     Rule("bq_end",       {"BQ"},                   FALSE, RE_bq_end),
     Rule("make_start",   {"INITIAL"},              FALSE, RE_make_start),
     Rule("make_cont",    {"MAKE"},                 FALSE, RE_make_cont),
     Rule("make_end",     {"MAKE"},                 FALSE, RE_nonblanks),
     Rule("table_start",  {"INITIAL"},              FALSE, RE_table_start),
     Rule("table_cont",   {"TABLE"},                FALSE, RE_table_cont),
     Rule("table_end",    {"TABLE"},                FALSE, RE_nonblank),
     Rule("ack",          {"INITIAL"},              FALSE, RE_ack),
     Rule("macrodesc",    {"INITIAL"},              FALSE, RE_macrodesc),
     Rule("files",        {"INITIAL"},              FALSE, RE_files),
     Rule("par",          {"INITIAL"},              FALSE, RE_par) >>

\* <OL><<EOF>>, <UL><<EOF>>, <BQ><<EOF>>; every other start condition has the
\* default end-of-file action, yyterminate()
EofRule(sc) ==
  CASE sc = "OL" -> "ol_eof"
    [] sc = "UL" -> "ul_eof"
    [] sc = "BQ" -> "bq_eof"
    [] OTHER -> "yyterminate"

(***************************************************************************)
(* yy_match: the rule flex selects at position pos in start condition sc:  *)
(* the longest match, the earliest rule on a tie; the default rule (ECHO   *)
(* one character) when no rule matches; the end-of-file rule at the end.   *)
(***************************************************************************)
\* the length each rule matches at pos, 0 for a rule that is not active in
\* sc, is anchored by '^' off the beginning of a line, or does not match
RuleLens(s, pos, sc, bol) ==
  [i \in 1..Len(Rules) |->
     IF sc \in Rules[i].sc /\ (Rules[i].bol => bol)
     THEN MatchLen(Rules[i].re, s, pos) ELSE 0]

BestRule(s, pos, sc, bol) ==
  LET lens == RuleLens(s, pos, sc, bol)
      best == SetMax({lens[i] : i \in 1..Len(Rules)})
      first == CHOOSE i \in 1..Len(Rules) :
                 lens[i] = best /\ \A j \in 1..(i - 1) : lens[j] < best
  IN  IF best = 0 THEN [act |-> "ECHO", len |-> 1]
      ELSE [act |-> Rules[first].id, len |-> best]

yy_match(s, pos, sc, bol) ==
  IF pos >= Len(s) THEN [act |-> EofRule(sc), len |-> 0]
  ELSE BestRule(s, pos, sc, bol)

(***************************************************************************)
(* C strings                                                               *)
(***************************************************************************)
FILEBUFLEN == 100
BUFLEN == 5000

\* the terminating '\0' read at s[strlen(s)]
NUL == "NUL"
CharAt(s, k) == IF k >= 1 /\ k <= Len(s) THEN s[k] ELSE NUL

\* strspn(s, accept): the length of the longest prefix made of accept
strspn(s, accept) ==
  IF \A k \in 1..Len(s) : s[k] \in accept THEN Len(s)
  ELSE (CHOOSE k \in 1..Len(s) :
          /\ s[k] \notin accept
          /\ \A j \in 1..(k - 1) : s[j] \in accept) - 1

\* index(s, c): the 1-based place of the first c in s, 0 for NULL
index(s, c) ==
  IF \E k \in 1..Len(s) : s[k] = c
  THEN CHOOSE k \in 1..Len(s) : s[k] = c /\ \A j \in 1..(k - 1) : s[j] # c
  ELSE 0

\* strstr(s, w): the 1-based place of the first occurrence of w in s, 0 for NULL
strstr(s, w) ==
  LET at(k) == k + Len(w) - 1 <= Len(s) /\ SubSeq(s, k, k + Len(w) - 1) = w
  IN  IF \E k \in 1..Len(s) : at(k)
      THEN CHOOSE k \in 1..Len(s) : at(k) /\ \A j \in 1..(k - 1) : ~at(j)
      ELSE 0

\* the rest of s from its 1-based place k (the C pointer s + k - 1)
From(s, k) == SubSeq(s, k, Len(s))

(***************************************************************************)
(* esc: one iteration of its loop writes EscWrites; the loop dies at the   *)
(* start of an iteration that finds dst > ARRAY_SIZE(g_esc_buf).           *)
(***************************************************************************)
\* c = s[i], prev = s[i-1], first: i = 0
EscWrites(c, prev, first) ==
  (IF c = BSL THEN <<BSL>> ELSE <<>>)
    \o (IF (c = APO \/ c = DOT) /\ ~first /\ prev = NL THEN <<BSL>> ELSE <<>>)
    \o <<c>>

EscDies(dst) == dst > BUFLEN

\* st = [pc, i, buf]; i counts the characters of s already handled
EscIter(s, st) ==
  IF CharAt(s, st.i + 1) = NUL THEN [st EXCEPT !.pc = "done"]
  ELSE IF EscDies(Len(st.buf)) THEN [st EXCEPT !.pc = "die"]
  ELSE [pc |-> "loop", i |-> st.i + 1,
        buf |-> st.buf \o EscWrites(s[st.i + 1], CharAt(s, st.i), st.i = 0)]

RECURSIVE EscLoop(_, _)
EscLoop(s, st) == IF st.pc # "loop" THEN st ELSE EscLoop(s, EscIter(s, st))

esc(s) == EscLoop(s, [pc |-> "loop", i |-> 0, buf |-> <<>>])

\* The call has written outside g_esc_buf: the overflow test lets the loop
\* write at g_esc_buf[BUFLEN] and past it, and the terminator goes to
\* g_esc_buf[dst] untested.  The bytes land in whatever object the build has
\* put behind g_esc_buf (g_trim_buf, yytext, yyout, ...), so the value of
\* that object, and with it what the run does from there, is undefined.
EscOverran(e) == Len(e.buf) >= BUFLEN

(***************************************************************************)
(* trim_leading_spaces                                                     *)
(***************************************************************************)
\* st = [pc, src, buf, trimming]
TrimIter(s, st) ==
  LET c == CharAt(s, st.src + 1)
      trimming == c = NL \/ (st.trimming /\ c = SP)
  IN  IF c = NUL THEN [st EXCEPT !.pc = "done"]
      ELSE IF trimming /\ c = SP
           THEN [st EXCEPT !.src = st.src + 1, !.trimming = trimming]
           ELSE [pc |-> IF Len(st.buf) + 1 >= BUFLEN THEN "die" ELSE "loop",
                 src |-> st.src + 1, buf |-> Append(st.buf, c),
                 trimming |-> trimming]

RECURSIVE TrimLoop(_, _)
TrimLoop(s, st) == IF st.pc # "loop" THEN st ELSE TrimLoop(s, TrimIter(s, st))

trim_leading_spaces(s) ==
  TrimLoop(s, [pc |-> "loop", src |-> 0, buf |-> <<>>, trimming |-> TRUE])

(***************************************************************************)
(* indent                                                                  *)
(***************************************************************************)
\* st = [pc, src, buf, delta, spaceAfterNewline]; src counts the characters
\* of s already handled, so that c = s[src] of the code is CharAt(s, src + 1)
IndentIter(s, spaces, st) ==
  LET c == CharAt(s, st.src + 1)
      pad == st.delta > 0
      strip == ~pad /\ st.spaceAfterNewline /\ c = SP /\ st.delta < 0
      buf1 == IF pad THEN Append(st.buf, SP)
              ELSE IF strip THEN st.buf
              ELSE Append(st.buf, c)
      delta1 == IF pad THEN st.delta - 1
                ELSE IF strip THEN st.delta + 1
                ELSE st.delta
      over == ~strip /\ Len(buf1) >= BUFLEN
      next == CharAt(s, st.src + 2)
  IN  IF c = NUL THEN [st EXCEPT !.pc = "done"]
      ELSE IF over THEN [st EXCEPT !.pc = "die", !.buf = buf1]
      ELSE [pc |-> "loop", src |-> st.src + 1, buf |-> buf1,
            delta |-> IF c = NL THEN spaces ELSE delta1,
            spaceAfterNewline |->
              IF next # SP THEN FALSE
              ELSE IF c = NL THEN TRUE ELSE st.spaceAfterNewline]

IndentInit(spaces) ==
  [pc |-> "loop", src |-> 0, buf |-> <<>>, delta |-> spaces,
   spaceAfterNewline |-> TRUE]

RECURSIVE IndentLoop(_, _, _)
IndentLoop(s, spaces, st) ==
  IF st.pc # "loop" THEN st ELSE IndentLoop(s, spaces, IndentIter(s, spaces, st))

indent(s, spaces) == IndentLoop(s, spaces, IndentInit(spaces))

(***************************************************************************)
(* Emitters.  An emitter yields [pc, chunks, ub]: pc = "die" when it ends  *)
(* in die(), else the chunks it prints; ub when one of its calls of esc    *)
(* has written outside g_esc_buf, and pc and chunks then say nothing about *)
(* the run.  A chunk [m, tag, body] is one printf call: m names the        *)
(* format string, tag and body are its %s arguments.                       *)
(***************************************************************************)
Chunk(m, tag, body) == [m |-> m, tag |-> tag, body |-> body]
Printed(c) == [pc |-> "ok", chunks |-> <<c>>, ub |-> FALSE]
Nothing == [pc |-> "ok", chunks |-> <<>>, ub |-> FALSE]
Died == [pc |-> "die", chunks |-> <<>>, ub |-> FALSE]

\* the outcome r of an emitter whose call of esc ended as e
WithEsc(e, r) == [r EXCEPT !.ub = @ \/ EscOverran(e)]

\* printf(".TH BSTRLIB 3\n"); printf(".SH NAME\nbstrlib \\- the better string library\n");
bstrlib_head == Printed(Chunk("TH_BSTRLIB", <<>>, <<>>))

\* printf("%s %.*s", macro, (int) (nl - yytext) + 1, yytext)
heading(level, text) ==
  LET up == IF level = 1 THEN str2upper(text) ELSE text
      nl == index(up, NL)
  IN  IF level < 1 \/ nl = 0 THEN Died
      ELSE Printed(Chunk(IF level = 1 THEN "SH" ELSE "SS", <<>>,
                         SubSeq(up, 1, nl)))

\* printf(".P\n%s", s)
par(s) ==
  LET t == trim_leading_spaces(s)
      e == esc(t.buf)
  IN  IF t.pc = "die" THEN Died
      ELSE WithEsc(e, IF e.pc = "die" THEN Died
                      ELSE Printed(Chunk("P", <<>>, e.buf)))

OlLabel == Digit \cup {".", ")"}

\* a hanging test that asks for an indented second line
ol_hanging_indented(s) ==
  LET nl == index(s, NL)
  IN  nl # 0 /\ nl < Len(s) /\ s[nl + 1] = SP

\* the hanging test of ol(), on the untrimmed buffer
ol_hanging(s) ==
  LET nl == index(s, NL)
  IN  ~(nl # 0 /\ nl < Len(s) /\ s[nl + 1] # SP)

\* an ol() that escapes the buffer without trimming it first
ol_untrimmed(buf) ==
  IF Len(buf) = 0 THEN Nothing
  ELSE LET e == esc(buf)
           s == e.buf
           label_len == strspn(s, OlLabel)
           ws_len == strspn(From(s, label_len + 1), {SP})
       IN  WithEsc(e,
             IF e.pc = "die" THEN Died
             ELSE IF label_len = 0 THEN Died
             ELSE IF ol_hanging(buf)
                  THEN Printed(Chunk("TP", SubSeq(s, 1, label_len),
                                     From(s, label_len + ws_len + 1)))
                  ELSE par(s))

\* printf(".TP\n%.*s\n%s", (int) label_len, s, s+label_len+ws_len), or par(s)
ol(buf) ==
  IF Len(buf) = 0 THEN Nothing
  ELSE LET t == trim_leading_spaces(buf)
           e == esc(t.buf)
           s == e.buf
           label_len == strspn(s, OlLabel)
           ws_len == strspn(From(s, label_len + 1), {SP})
       IN  IF t.pc = "die" THEN Died
           ELSE WithEsc(e,
                  IF e.pc = "die" THEN Died
                  ELSE IF label_len = 0 THEN Died
                  ELSE IF ol_hanging(buf)
                       THEN Printed(Chunk("TP", SubSeq(s, 1, label_len),
                                          From(s, label_len + ws_len + 1)))
                       ELSE par(s))

\* printf(".TP\n-\n%s", s + prefix_len)
ul(buf) ==
  IF Len(buf) = 0 THEN Nothing
  ELSE LET e == esc(buf)
           t == trim_leading_spaces(e.buf)
           s == t.buf
           prefix_len == strspn(s, {"-", SP})
       IN  WithEsc(e,
             IF e.pc = "die" \/ t.pc = "die" THEN Died
             ELSE Printed(Chunk("TP", <<"-">>, From(s, prefix_len + 1))))

\* a bq() that prints the escaped buffer as it stands
bq_unindented(buf) ==
  IF Len(buf) = 0 THEN Nothing
  ELSE LET e == esc(buf)
       IN  WithEsc(e, IF e.pc = "die" THEN Died
                      ELSE Printed(Chunk("EX", <<>>, e.buf)))

\* printf("\n.EX\n%s.EE\n", s)
bq(buf) ==
  IF Len(buf) = 0 THEN Nothing
  ELSE LET e == esc(buf)
           init_indent == strspn(e.buf, {SP})
           n == indent(e.buf, 4 - init_indent)
       IN  WithEsc(e, IF e.pc = "die" \/ n.pc = "die" THEN Died
                      ELSE Printed(Chunk("EX", <<>>, n.buf)))

\* printf("\n.nf\n%s.fi\n", s)
nf(s) ==
  LET e == esc(s)
  IN  WithEsc(e, IF e.pc = "die" THEN Died
                 ELSE Printed(Chunk("nf", <<>>, e.buf)))

\* printf(".TP\n%.*s\n%s", taglen, s, s + desc_offset)
macrodesc(text) ==
  LET e == esc(text)
      t == trim_leading_spaces(e.buf)
      s == t.buf
      tagend == index(s, NL)
      taglen == tagend - 1
      desc_offset == taglen + strspn(From(s, taglen + 1), {SP, "-", NL})
  IN  WithEsc(e,
        IF e.pc = "die" \/ t.pc = "die" THEN Died
        ELSE IF tagend = 0 THEN Died
        ELSE Printed(Chunk("TP", SubSeq(s, 1, taglen), From(s, desc_offset + 1))))

(***************************************************************************)
(* The function pages                                                      *)
(***************************************************************************)
\* FUNC_RE "[bu][a-zA-Z0-9-]+ ?\\("
FUNC_RE ==
  Cat(<<In({"b", "u"}), Plus(In(Lower \cup Upper \cup Digit \cup {"-"})),
        Opt(Ch(SP)), Ch("(")>>)

\* regexec: the leftmost match, and the longest at that place;
\* [rm_so, rm_eo] as 0-based offsets, rm_so = -1 when nothing matches
regexec(re, text) ==
  LET hit(k) == MatchLen(re, text, k) > 0
  IN  IF \E k \in 0..(Len(text) - 1) : hit(k)
      THEN LET so == CHOOSE k \in 0..(Len(text) - 1) :
                        hit(k) /\ \A j \in 0..(k - 1) : ~hit(j)
           IN  [rm_so |-> so, rm_eo |-> so + MatchLen(re, text, so)]
      ELSE [rm_so |-> -1, rm_eo |-> -1]

\* for (eo = m.rm_eo-1; eo > 0; eo--) if (yytext[eo] != '(' && yytext[eo] != ' ') break;
RECURSIVE func_name_eo(_, _)
func_name_eo(text, eo) ==
  IF eo > 0 /\ text[eo + 1] \in {"(", SP} THEN func_name_eo(text, eo - 1) ELSE eo

\* [pc, name]
func_name(text) ==
  LET m == regexec(FUNC_RE, text)
      eo == func_name_eo(text, m.rm_eo - 1)
  IN  IF m.rm_so = -1 THEN [pc |-> "die", name |-> <<>>]
      ELSE [pc |-> "ok", name |-> SubSeq(text, m.rm_so + 1, eo + 1)]

\* the synopsis text of func_head: re-indented, escaped, "extern " cut out
\* and the line after it moved left by the qualifier's width
func_synopsis(text) ==
  LET n == indent(text, 0 - strspn(text, {SP}))
      e == esc(n.buf)
      loc == strstr(e.buf, Str.Extern)
      s == From(e.buf, loc + Len(Str.Extern))
      nl == index(s, NL)
      rest == From(s, nl + 1)
      ub == n.pc # "die" /\ EscOverran(e)
  IN  IF n.pc = "die" \/ e.pc = "die" THEN [pc |-> "die", buf |-> <<>>, ub |-> ub]
      ELSE IF loc = 0 THEN [pc |-> "ok", buf |-> e.buf, ub |-> ub]
      \* index() found no newline: strlen(nl+1) reads through a null pointer
      ELSE IF nl = 0 THEN [pc |-> "ub", buf |-> <<>>, ub |-> ub]
      ELSE IF Len(rest) > Len(Str.Extern)
           THEN [pc |-> "ok",
                 buf |-> SubSeq(s, 1, nl) \o From(rest, Len(Str.Extern) + 1),
                 ub |-> ub]
           ELSE [pc |-> "ok", buf |-> s, ub |-> ub]

\* What a call of open_deffile can end in: the FILE ("ok"), or the message of
\* its die() when stat, mkdir or fopen fails.  The file system decides.
open_deffile == {"ok", "stat %s", "create manpage dir", "open manpage file"}

\* What func_exit can end in: fclose returns 0 ("ok"), or the message of its
\* die() when fclose fails.
func_exit == {"ok", "close def file"}

\* snprintf(path, FILEBUFLEN, "%s/%s.3", dir, name)
deffile_path(name) ==
  LET full == Str.man3 \o name \o Str.dot3
  IN  SubSeq(full, 1, IF Len(full) < FILEBUFLEN - 1 THEN Len(full) ELSE FILEBUFLEN - 1)

\* func_head up to its call of open_deffile, and the four fprintf calls
\* after it: [pc, name, chunks, ub]
func_head(text) ==
  LET nm == func_name(text)
      syn == func_synopsis(text)
      ub == nm.pc # "die" /\ syn.ub
  IN  IF nm.pc = "die" \/ syn.pc = "die"
      THEN [pc |-> "die", name |-> <<>>, chunks |-> <<>>, ub |-> ub]
      ELSE IF syn.pc = "ub"
      THEN [pc |-> "ub", name |-> <<>>, chunks |-> <<>>, ub |-> ub]
      ELSE [pc |-> "ok", name |-> nm.name, ub |-> ub,
            chunks |-> << Chunk("TH", str2upper(nm.name), <<>>),
                          Chunk("NAME", nm.name, <<>>),
                          Chunk("SYNOPSIS", <<>>, syn.buf),
                          Chunk("DESCRIPTION", <<>>, <<>>) >>]

\* fprintf(g_def_file, ".P\n%s", s)
func_par(text) ==
  LET e == esc(text)
      t == trim_leading_spaces(e.buf)
  IN  WithEsc(e, IF e.pc = "die" \/ t.pc = "die" THEN Died
                 ELSE Printed(Chunk("P", <<>>, t.buf)))

\* fprintf(g_def_file, ".br\n.EX\n%s.EE\n", s)
func_ex(text) ==
  LET e == esc(text)
      init_indent == strspn(e.buf, {SP})
      n == indent(e.buf, 4 - init_indent)
  IN  WithEsc(e, IF e.pc = "die" \/ n.pc = "die" THEN Died
                 ELSE Printed(Chunk("brEX", <<>>, n.buf)))

(***************************************************************************)
(* The scanner's state                                                     *)
(***************************************************************************)
VARIABLES
  input,       \* the whole input stream (stdin)
  pos,         \* yy_c_buf_p: the number of characters consumed
  yy_at_bol,   \* flex's beginning-of-line flag, set by YY_RULE_SETUP
  yy_start,    \* the start condition (BEGIN)
  yy_act,      \* the rule whose action is about to run, "none" between rules
  yyleng,      \* the length of yytext
  g_buf,       \* the accumulation buffer
  out,         \* stdout: the chunks printed to the aggregate page
  files,       \* every FILE opened by open_deffile: [path, open, text]
  g_def_file,  \* the index in files of the current per-symbol FILE, 0 = NULL
  status,      \* "run", "done" (yylex returned), "abort" (die), or "ub":
               \* the run has met undefined behaviour; what it does from
               \* there on (go on, go on with changed objects, be killed) is
               \* up to the build, and the model follows it no further
  stderr,      \* the message of the die() that ended the run, "" while none
               \* has: a file operation's format string, "die" for the others
  hist,        \* history: the rules run so far, [act, from, to, less]
  call         \* the call of esc or indent run on its own (SpecEsc, SpecIndent)

vars ==
  <<input, pos, yy_at_bol, yy_start, yy_act, yyleng, g_buf, out, files,
    g_def_file, status, stderr, hist, call>>

yytext == SubSeq(input, pos - yyleng + 1, pos)

NoCall == [fn |-> "none"]

\* the state in which yylex() starts on the input s
ScannerInit(s) ==
  /\ input = s
  /\ pos = 0
  /\ yy_at_bol = TRUE
  /\ yy_start = "INITIAL"
  /\ yy_act = "none"
  /\ yyleng = 0
  /\ g_buf = <<>>
  /\ out = <<>>
  /\ files = <<>>
  /\ g_def_file = 0
  /\ status = "run"
  /\ stderr = ""
  /\ hist = <<>>
  /\ call = NoCall

\* bstart, bappend: [pc, buf]; strlcpy and strlcat keep what fits
bstart(text) ==
  IF Len(text) >= BUFLEN
  THEN [pc |-> "die", buf |-> SubSeq(text, 1, BUFLEN - 1)]
  ELSE [pc |-> "ok", buf |-> text]

bappend(buf, text) ==
  IF Len(buf) + Len(text) >= BUFLEN
  THEN [pc |-> "die", buf |-> SubSeq(buf \o text, 1, BUFLEN - 1)]
  ELSE [pc |-> "ok", buf |-> buf \o text]

Keep(buf) == [pc |-> "ok", buf |-> buf]

(***************************************************************************)
(* One pass of flex's matching loop: find the rule, set yytext and the     *)
(* beginning-of-line flag (YY_RULE_SETUP), move past the lexeme.           *)
(***************************************************************************)
Scan ==
  /\ status = "run"
  /\ yy_act = "none"
  /\ \E m \in {yy_match(input, pos, yy_start, yy_at_bol)} :
         /\ yy_act' = m.act
         /\ yyleng' = m.len
         /\ pos' = pos + m.len
         /\ yy_at_bol' = IF m.len > 0 THEN input[pos + m.len] = NL ELSE yy_at_bol
  /\ UNCHANGED <<input, yy_start, g_buf, out, files, g_def_file, status,
                 stderr, hist, call>>

\* The end of a rule's action that prints r to stdout, then leaves b in g_buf
\* and ends in BEGIN(sc); less: the action calls yyless(0).  What r printed
\* before a die() stays printed.  When r has written outside g_esc_buf the
\* run is undefined from this step on, its printing included.
Ran(less) ==
  hist' = Append(hist, [act |-> yy_act, from |-> pos - yyleng, to |-> pos,
                        less |-> less])

Stdout(r, b, sc, less) ==
  /\ yy_act' = "none"
  /\ Ran(less)
  /\ IF r.ub
     THEN /\ status' = "ub"
          /\ UNCHANGED <<out, g_buf, yy_start, pos, yyleng, stderr>>
     ELSE IF r.pc = "die" \/ b.pc = "die"
     THEN /\ status' = "abort"
          /\ stderr' = "die"
          /\ out' = out \o r.chunks
          /\ g_buf' = IF r.pc = "die" THEN g_buf ELSE b.buf
          /\ UNCHANGED <<yy_start, pos, yyleng>>
     ELSE /\ status' = status
          /\ out' = out \o r.chunks
          /\ g_buf' = b.buf
          /\ yy_start' = sc
          /\ pos' = IF less THEN pos - yyleng ELSE pos
          /\ yyleng' = IF less THEN 0 ELSE yyleng
          /\ UNCHANGED stderr
  /\ UNCHANGED <<input, yy_at_bol, files, g_def_file, call>>

\* The end of a rule's action that prints r to g_def_file and ends in
\* BEGIN(sc).  fprintf to a FILE that is not open is undefined, and so is the
\* run once r has written outside g_esc_buf.
Deffile(r, sc) ==
  /\ yy_act' = "none"
  /\ Ran(FALSE)
  /\ IF r.ub
     THEN status' = "ub" /\ UNCHANGED <<files, yy_start, stderr>>
     ELSE IF r.pc = "die"
     THEN status' = "abort" /\ stderr' = "die" /\ UNCHANGED <<files, yy_start>>
     ELSE IF g_def_file = 0 \/ ~files[g_def_file].open
     THEN status' = "ub" /\ UNCHANGED <<files, yy_start, stderr>>
     ELSE /\ status' = status
          /\ files' = [files EXCEPT ![g_def_file].text = @ \o r.chunks]
          /\ yy_start' = sc
          /\ UNCHANGED stderr
  /\ UNCHANGED <<input, pos, yy_at_bol, yyleng, g_buf, out, g_def_file, call>>

Acting(id) == status = "run" /\ yy_act = id

(***************************************************************************)
(* The rules' actions, in the order of the file                            *)
(***************************************************************************)
\* bstrlib_head(); heading(1);
R_title ==
  /\ Acting("title")
  /\ \E h \in {heading(1, yytext)} :
         Stdout([pc |-> h.pc, chunks |-> bstrlib_head.chunks \o h.chunks,
                 ub |-> FALSE],
                Keep(g_buf), yy_start, FALSE)

\* BEGIN(FUNC_HEAD);
R_func_section ==
  /\ Acting("func_section")
  /\ Stdout(Nothing, Keep(g_buf), "FUNC_HEAD", FALSE)

\* a terminator rule without its BEGIN(0)
R_func_exit_stays ==
  /\ Acting("func_exit")
  /\ yy_act' = "none"
  /\ Ran(FALSE)
  /\ IF g_def_file = 0 \/ ~files[g_def_file].open
     THEN status' = "ub" /\ UNCHANGED <<files, stderr>>
     ELSE \E err \in func_exit :
            /\ files' = [files EXCEPT ![g_def_file].open = FALSE]
            /\ status' = (IF err = "ok" THEN status ELSE "abort")
            /\ stderr' = (IF err = "ok" THEN stderr ELSE err)
  /\ UNCHANGED <<input, pos, yy_at_bol, yyleng, g_buf, out, g_def_file, call,
                 yy_start>>

\* func_exit(); BEGIN(0);   (fclose of a FILE that is not open is undefined;
\* a failing fclose has given up the FILE all the same)
R_func_exit ==
  /\ Acting("func_exit")
  /\ yy_act' = "none"
  /\ Ran(FALSE)
  /\ IF g_def_file = 0 \/ ~files[g_def_file].open
     THEN status' = "ub" /\ UNCHANGED <<files, yy_start, stderr>>
     ELSE \E err \in func_exit :
            /\ files' = [files EXCEPT ![g_def_file].open = FALSE]
            /\ status' = (IF err = "ok" THEN status ELSE "abort")
            /\ stderr' = (IF err = "ok" THEN stderr ELSE err)
            /\ yy_start' = (IF err = "ok" THEN "INITIAL" ELSE yy_start)
  /\ UNCHANGED <<input, pos, yy_at_bol, yyleng, g_buf, out, g_def_file, call>>

\* func_head(); BEGIN(FUNC_BODY);
R_func_head ==
  /\ Acting("func_head")
  /\ yy_act' = "none"
  /\ Ran(FALSE)
  /\ \E h \in {func_head(yytext)} :
       \E f \in open_deffile :
         IF h.ub \/ h.pc # "ok"
         THEN /\ status' = (IF ~h.ub /\ h.pc = "die" THEN "abort" ELSE "ub")
              /\ stderr' = (IF ~h.ub /\ h.pc = "die" THEN "die" ELSE stderr)
              /\ UNCHANGED <<files, g_def_file, yy_start>>
         ELSE IF f # "ok"
         THEN /\ status' = "abort"
              /\ stderr' = f
              /\ UNCHANGED <<files, g_def_file, yy_start>>
         ELSE /\ status' = status
              /\ files' = Append(files, [path |-> deffile_path(h.name),
                                         open |-> TRUE, text |-> h.chunks])
              /\ g_def_file' = Len(files) + 1
              /\ yy_start' = "FUNC_BODY"
              /\ UNCHANGED stderr
  /\ UNCHANGED <<input, pos, yy_at_bol, yyleng, g_buf, out, call>>

\* func_par(); BEGIN(FUNC_EX);
R_func_colon == Acting("func_colon") /\ Deffile(func_par(yytext), "FUNC_EX")

\* an example rule without its BEGIN(FUNC_BODY)
R_func_ex_stays == Acting("func_ex") /\ Deffile(func_ex(yytext), yy_start)

\* func_ex(); BEGIN(FUNC_BODY);
R_func_ex == Acting("func_ex") /\ Deffile(func_ex(yytext), "FUNC_BODY")

\* func_par();
R_func_par == Acting("func_par") /\ Deffile(func_par(yytext), yy_start)

\* (no action)
R_func_blank ==
  Acting("func_blank") /\ Stdout(Nothing, Keep(g_buf), yy_start, FALSE)

\* heading(1); BEGIN(UNIPARS);
R_uni_head ==
  Acting("uni_head") /\ Stdout(heading(1, yytext), Keep(g_buf), "UNIPARS", FALSE)

\* a pushback that stays in UNIPARS: yyless(0) without BEGIN(0)
R_uni_end_stays ==
  Acting("uni_end") /\ Stdout(Nothing, Keep(g_buf), yy_start, TRUE)

\* yyless(0); BEGIN(0);
R_uni_end == Acting("uni_end") /\ Stdout(Nothing, Keep(g_buf), "INITIAL", TRUE)

\* par(yytext);
R_uni_par == Acting("uni_par") /\ Stdout(par(yytext), Keep(g_buf), yy_start, FALSE)

\* heading(1);
R_h1 == Acting("h1") /\ Stdout(heading(1, yytext), Keep(g_buf), yy_start, FALSE)

\* heading(2);
R_h2 == Acting("h2") /\ Stdout(heading(2, yytext), Keep(g_buf), yy_start, FALSE)

\* (no action)
R_divider == Acting("divider") /\ Stdout(Nothing, Keep(g_buf), yy_start, FALSE)

\* (no action)
R_blank == Acting("blank") /\ Stdout(Nothing, Keep(g_buf), yy_start, FALSE)

\* ol(); bstart(); BEGIN(OL);
R_ol_item == Acting("ol_item") /\ Stdout(ol(g_buf), bstart(yytext), "OL", FALSE)

\* bappend();
R_ol_cont ==
  Acting("ol_cont") /\ Stdout(Nothing, bappend(g_buf, yytext), yy_start, FALSE)

\* ol(); BEGIN(0);   (ol ends in bclear unless the buffer was empty)
R_ol_end == Acting("ol_end") /\ Stdout(ol(g_buf), Keep(<<>>), "INITIAL", FALSE)

\* <OL><<EOF>>  ol(); BEGIN(0);
R_ol_eof == Acting("ol_eof") /\ Stdout(ol(g_buf), Keep(<<>>), "INITIAL", FALSE)

\* ul(); bstart(); BEGIN(UL);
R_ul_item == Acting("ul_item") /\ Stdout(ul(g_buf), bstart(yytext), "UL", FALSE)

\* bappend();
R_ul_cont ==
  Acting("ul_cont") /\ Stdout(Nothing, bappend(g_buf, yytext), yy_start, FALSE)

\* ul(); BEGIN(0);
R_ul_end == Acting("ul_end") /\ Stdout(ul(g_buf), Keep(<<>>), "INITIAL", FALSE)

\* <UL><<EOF>>  ul(); BEGIN(0);
R_ul_eof == Acting("ul_eof") /\ Stdout(ul(g_buf), Keep(<<>>), "INITIAL", FALSE)

\* bstart(); BEGIN(BQ);
R_bq_start == Acting("bq_start") /\ Stdout(Nothing, bstart(yytext), "BQ", FALSE)

\* bappend();
R_bq_cont ==
  Acting("bq_cont") /\ Stdout(Nothing, bappend(g_buf, yytext), yy_start, FALSE)

\* bappend();
R_bq_blank ==
  Acting("bq_blank") /\ Stdout(Nothing, bappend(g_buf, yytext), yy_start, FALSE)

\* bq(); yyless(0); BEGIN(0);
R_bq_end == Acting("bq_end") /\ Stdout(bq(g_buf), Keep(<<>>), "INITIAL", TRUE)

\* <BQ><<EOF>>  bq(); BEGIN(0);
R_bq_eof == Acting("bq_eof") /\ Stdout(bq(g_buf), Keep(<<>>), "INITIAL", FALSE)

\* bstart(); BEGIN(MAKE);
R_make_start == Acting("make_start") /\ Stdout(Nothing, bstart(yytext), "MAKE", FALSE)

\* bappend();
R_make_cont ==
  Acting("make_cont") /\ Stdout(Nothing, bappend(g_buf, yytext), yy_start, FALSE)

\* nf(g_buf); bclear(); yyless(0); BEGIN(0);
R_make_end == Acting("make_end") /\ Stdout(nf(g_buf), Keep(<<>>), "INITIAL", TRUE)

\* bstart(); BEGIN(TABLE);
R_table_start ==
  Acting("table_start") /\ Stdout(Nothing, bstart(yytext), "TABLE", FALSE)

\* bappend();
R_table_cont ==
  Acting("table_cont") /\ Stdout(Nothing, bappend(g_buf, yytext), yy_start, FALSE)

\* the end of a table without bclear()
R_table_end_keeps ==
  Acting("table_end") /\ Stdout(nf(g_buf), Keep(g_buf), "INITIAL", TRUE)

\* nf(g_buf); bclear(); yyless(0); BEGIN(0);
R_table_end == Acting("table_end") /\ Stdout(nf(g_buf), Keep(<<>>), "INITIAL", TRUE)

\* nf(yytext);
R_ack == Acting("ack") /\ Stdout(nf(yytext), Keep(g_buf), yy_start, FALSE)

\* macrodesc(yytext);
R_macrodesc ==
  Acting("macrodesc") /\ Stdout(macrodesc(yytext), Keep(g_buf), yy_start, FALSE)

\* nf(yytext);
R_files == Acting("files") /\ Stdout(nf(yytext), Keep(g_buf), yy_start, FALSE)

\* par(yytext);
R_par == Acting("par") /\ Stdout(par(yytext), Keep(g_buf), yy_start, FALSE)

\* flex's default rule: ECHO the one unmatched character to stdout
R_ECHO ==
  /\ Acting("ECHO")
  /\ Stdout(Printed(Chunk("ECHO", <<>>, yytext)), Keep(g_buf), yy_start, FALSE)

\* flex's default end-of-file action: yyterminate(); main returns
R_yyterminate ==
  /\ Acting("yyterminate")
  /\ status' = "done"
  /\ UNCHANGED <<input, pos, yy_at_bol, yy_start, yy_act, yyleng, g_buf, out,
                 files, g_def_file, stderr, hist, call>>

(***************************************************************************)
(* Inputs: documents built from a few lines of each kind the rules tell    *)
(* apart.                                                                  *)
(***************************************************************************)
MaxLines == 3
MaxBlocks == 2

\* the lines documents are made of, by the rule that takes them
Line ==
  [ blank |-> <<"\n">>,
    a |-> <<"a","\n">>,
    colon |-> <<"a",":","\n">>,
    term |-> <<"=","=","=","=","=","\n">>,
    dots |-> <<" "," "," "," ",".",".",".",".",".","\n">>,
    head |-> <<"b","a","(","\n">>,
    sp_a |-> <<" ","a","\n">>,
    ol |-> <<"1","."," ","a","\n">>,
    ul |-> <<"-"," ","a","\n">>,
    bq4 |-> <<" "," "," "," ","a","\n">>,
    bq5 |-> <<" "," "," "," "," ","a","\n">>,
    row |-> <<"a"," "," "," ","b","\n">>,
    tablehead |-> <<"a","\n","-","-","-"," ","-","-","-","\n">>,
    make |-> <<"B","S","T","R","D","I","R"," ","="," ","x","\n","a","\n",
        "\n">>,
    makecont |-> <<"a","\n","\t","b","\n","a","\n","\n">>,
    unihead |-> <<"U","n","i","c","o","d","e"," ","f","u","n","c","t","i","o",
        "n","s","\n","-","-","-","\n","\n">>,
    uniend |-> <<" "," ",".",".",".","\n","\n">>,
    h1 |-> <<"a","b","c","\n","-","-","-","\n">>,
    h2 |-> <<"a","b","c","\n",".",".",".","\n">>,
    div |-> <<"=","=","=","\n">>,
    macro |-> <<"B","S","T","R","L","I","B","_","A","\n","\n","a","\n","\n">>,
    files |-> <<"a",".","b"," "," ","-"," ","c","\n">>,
    digit |-> <<"1","a","\n">>,
    apo |-> <<"'","a","\n">>,
    sp_apo |-> <<" ","'","a","\n">>,
    bsl |-> <<"a","\\","b","\n">>,
    dash |-> <<"-","a","\n">>,
    ff |-> <<FF,"a","\n">>,
    ol_bsl |-> <<"1","."," ","\\","\n">>,
    ext |-> <<"e","x","t","e","r","n"," ","b","a"," ","(","\n">>,
    ext_us |-> <<"e","x","t","e","r","n"," ","b","_","a","(","\n">>,
    suffix |-> <<"c","b","u","(","\n">>,
    cont |-> <<" "," "," "," "," "," "," "," "," ","b",")","\n">> ]

\* a divider, a one-line prototype and a blank line: the scanner is in FUNC_BODY
P_func == <<" "," "," "," ",".",".",".",".",".","\n","\n","b","a","(","\n","\n">>

FuncLines == {Line.a, Line.colon, Line.blank, Line.term, Line.dots, Line.head}
TextLines == {Line.ol, Line.ul, Line.sp_a, Line.a, Line.blank, Line.bq4}
TableLines == {Line.row, Line.a, Line.blank}
MakeLines == {Line.makecont, Line.a, Line.blank}
Blocks ==
  {Str.Title, Line.unihead, Line.uniend, Line.sp_a, Line.h1, Line.h2,
   Line.div, Str.BjornAugestad,
   Line.macro, Line.files, Line.digit, Line.apo, Line.bsl, P_func, Line.sp_apo,
   Line.dash, Line.ff}

\* the lines of a function header: prototypes and a continuation line
HeadLines == {Line.head, Line.ext, Line.ext_us, Line.suffix, Line.cont}

RECURSIVE Concat(_)
Concat(ws) == IF ws = <<>> THEN <<>> ELSE Head(ws) \o Concat(Tail(ws))

SeqsUpTo(S, n) == UNION {[1..k -> S] : k \in 0..n}

Documents(prefix, S, n) == {prefix \o Concat(ws) : ws \in SeqsUpTo(S, n)}

Inputs ==
  Documents(P_func, FuncLines, MaxLines)
    \cup Documents(<<>>, TextLines, MaxLines)
    \cup Documents(Line.bq5, TextLines, MaxLines)
    \cup Documents(Line.tablehead, TableLines, MaxLines)
    \cup Documents(Line.make, MakeLines, MaxLines)
    \cup Documents(<<>>, Blocks, MaxBlocks)
    \cup Documents(Line.dots \o Line.blank, HeadLines, MaxBlocks)
    \cup Documents(Line.ol_bsl, TextLines, MaxBlocks)

(***************************************************************************)
(* The scanner run: main() calls yylex() once on the whole input           *)
(***************************************************************************)
Init == \E s \in Inputs : ScannerInit(s)

Next ==
  \/ Scan
  \/ R_title \/ R_func_section \/ R_func_exit \/ R_func_head \/ R_func_colon
  \/ R_func_ex \/ R_func_par \/ R_func_blank \/ R_uni_head \/ R_uni_end
  \/ R_uni_par \/ R_h1 \/ R_h2 \/ R_divider \/ R_blank
  \/ R_ol_item \/ R_ol_cont \/ R_ol_end \/ R_ol_eof
  \/ R_ul_item \/ R_ul_cont \/ R_ul_end \/ R_ul_eof
  \/ R_bq_start \/ R_bq_cont \/ R_bq_blank \/ R_bq_end \/ R_bq_eof
  \/ R_make_start \/ R_make_cont \/ R_make_end
  \/ R_table_start \/ R_table_cont \/ R_table_end
  \/ R_ack \/ R_macrodesc \/ R_files \/ R_par \/ R_ECHO \/ R_yyterminate

Spec == Init /\ [][Next]_vars

(***************************************************************************)
(* indent on its own: every text over a space, a letter and a newline, up  *)
(* to MaxText characters, and every delta up to MaxDelta either way; one   *)
(* step is one iteration of the loop.                                      *)
(***************************************************************************)
MaxText == 4
MaxDelta == 2

\* the scanner is not running
ScannerOff ==
  /\ input = <<>>
  /\ pos = 0
  /\ yy_at_bol = TRUE
  /\ yy_start = "INITIAL"
  /\ yy_act = "none"
  /\ yyleng = 0
  /\ g_buf = <<>>
  /\ out = <<>>
  /\ files = <<>>
  /\ g_def_file = 0
  /\ status = "off"
  /\ stderr = ""
  /\ hist = <<>>

IndentTexts == SeqsUpTo({SP, "a", NL}, MaxText)

InitIndent ==
  /\ ScannerOff
  /\ \E s \in IndentTexts, d \in (0 - MaxDelta)..MaxDelta :
       call = [fn |-> "indent", s |-> s, spaces |-> d, st |-> IndentInit(d)]

IndentStep ==
  /\ call.fn = "indent"
  /\ call.st.pc = "loop"
  /\ call' = [call EXCEPT !.st = IndentIter(call.s, call.spaces, call.st)]
  /\ UNCHANGED <<input, pos, yy_at_bol, yy_start, yy_act, yyleng, g_buf, out,
                 files, g_def_file, status, stderr, hist>>

SpecIndent == InitIndent /\ [][IndentStep]_vars

(***************************************************************************)
(* esc on its own, on texts about as long as its buffer: EscFill letters   *)
(* followed by a short tail of letters and backslashes.  The state keeps   *)
(* dst and the highest index written, not the buffer.  A write at an index *)
(* >= BUFLEN is outside g_esc_buf: the run may go on or fault.             *)
(***************************************************************************)
MaxTail == 2
MaxOver == 1

EscTails == SeqsUpTo({"a", BSL}, MaxTail)
EscFills == (BUFLEN - MaxTail - 1)..(BUFLEN + MaxOver)

\* s[k] of the text made of n letters and then tail (k counts from 1)
FillCharAt(n, tail, k) ==
  IF k < 1 THEN NUL ELSE IF k <= n THEN "a" ELSE CharAt(tail, k - n)

MaxOf(a, b) == IF a >= b THEN a ELSE b

InitEsc ==
  /\ ScannerOff
  /\ \E n \in EscFills, tail \in EscTails :
       call = [fn |-> "esc", n |-> n, tail |-> tail, pc |-> "loop", i |-> 0,
               dst |-> 0, maxw |-> -1]

\* one iteration of the loop of esc, or the write of the terminator after it
EscStep ==
  /\ call.fn = "esc"
  /\ call.pc = "loop"
  /\ call.maxw < BUFLEN
  /\ \E c \in {FillCharAt(call.n, call.tail, call.i + 1)} :
       IF c = NUL
       THEN call' = [call EXCEPT !.pc = "done", !.maxw = MaxOf(@, call.dst)]
       ELSE IF EscDies(call.dst)
       THEN call' = [call EXCEPT !.pc = "die"]
       ELSE \E w \in {EscWrites(c, FillCharAt(call.n, call.tail, call.i),
                                call.i = 0)} :
              call' = [call EXCEPT !.i = @ + 1, !.dst = @ + Len(w),
                                   !.maxw = MaxOf(@, call.dst + Len(w) - 1)]
  /\ UNCHANGED <<input, pos, yy_at_bol, yy_start, yy_act, yyleng, g_buf, out,
                 files, g_def_file, status, stderr, hist>>

\* after a write outside the buffer the behaviour is undefined: the model
\* follows the call no further
EscFault ==
  /\ call.fn = "esc"
  /\ call.pc \in {"loop", "done"}
  /\ call.maxw >= BUFLEN
  /\ call' = [call EXCEPT !.pc = "fault"]
  /\ UNCHANGED <<input, pos, yy_at_bol, yy_start, yy_act, yyleng, g_buf, out,
                 files, g_def_file, status, stderr, hist>>

NextEsc == EscStep \/ EscFault

SpecEsc == InitEsc /\ [][NextEsc]_vars

(***************************************************************************)
(* Function pages: the destination file.                                   *)
(***************************************************************************)
OpenFiles == {k \in 1..Len(files) : files[k].open}

\* C1: at most one function-page destination file is open at any time; a
\* new page's destination is opened only once the previous one is closed.
C1_AtMostOneOpen == Cardinality(OpenFiles) <= 1

\* the lexeme holds a whole line of five or more '='
HasTerminatorLine(text) ==
  \E k \in 1..Len(text) :
    /\ k = 1 \/ text[k - 1] = NL
    /\ MatchLen(RE_func_exit, text, k - 1) > 0

\* C2: in the body of a function page (FUNC_BODY, or FUNC_EX for the text
\* after a colon-terminated group) every line of five or more '=' is taken
\* by the terminator rule, which closes the destination once and returns
\* the scanner to INITIAL: no other rule consumes such a line.
C2_TerminatorAlwaysExits ==
  (status = "run" /\ yy_start \in {"FUNC_BODY", "FUNC_EX"}
     /\ yy_act # "none" /\ HasTerminatorLine(yytext))
    => yy_act = "func_exit"

(***************************************************************************)
(* What has been printed: to stdout, then to each function page.           *)
(***************************************************************************)
Emitted == out \o Concat([k \in 1..Len(files) |-> files[k].text])

\* the chunks whose %s argument is body text that went through esc
BodyKinds == {"P", "TP", "EX", "nf", "brEX", "SYNOPSIS"}

\* roff reads text from place k on as plain text: every backslash heads an
\* escape of '\', ''' or '.', and no line starts with a bare ''' or '.'
RECURSIVE EscapedFrom(_, _)
EscapedFrom(text, k) ==
  IF k > Len(text) THEN TRUE
  ELSE IF text[k] = BSL
       THEN /\ k < Len(text)
            /\ text[k + 1] \in {BSL, APO, DOT}
            /\ EscapedFrom(text, k + 2)
  ELSE IF text[k] \in {APO, DOT} /\ (k = 1 \/ text[k - 1] = NL) THEN FALSE
  ELSE EscapedFrom(text, k + 1)

\* C3: the body text printed by every body-text emitter is roff-escaped:
\* each backslash is escaped and an apostrophe or period that leads a line
\* is prefixed with a backslash, so roff never reads body text as a request.
C3_BodyTextEscaped ==
  \A k \in 1..Len(Emitted) :
    Emitted[k].m \in BodyKinds => EscapedFrom(Emitted[k].body, 1)

Accumulating == {"OL", "UL", "BQ", "MAKE", "TABLE"}

\* C4: when the input ends while a block is being accumulated (ordered or
\* unordered list, block quote, Makefile example, table) the block is
\* finalized: the run never ends in an accumulating mode or with text left
\* in the buffer.
C4_EofFinalizes ==
  status = "done" => (yy_start \notin Accumulating /\ g_buf = <<>>)

Lexeme(h) == SubSeq(input, h.from + 1, h.to)

\* the rules, run so far, that consumed their lexeme (no yyless)
Consumed == SelectSeq(hist, LAMBDA h : ~h.less)

\* the rules whose action prints nothing: dividers and blank lines
Discarding ==
  {"func_section", "func_exit", "func_blank", "divider", "blank", "ol_end",
   "ul_end"}

Alnum == Lower \cup Upper \cup Digit
Letters(text) == Cardinality({k \in 1..Len(text) : text[k] \in Alnum})

RECURSIVE Sum(_)
Sum(ns) == IF ns = <<>> THEN 0 ELSE Head(ns) + Sum(Tail(ns))

\* letters handed to a rule that prints its text
KeptLetters ==
  Sum([k \in 1..Len(Consumed) |->
         IF Consumed[k].act \in Discarding THEN 0
         ELSE Letters(Lexeme(Consumed[k]))])

\* letters printed as text (the page name in .TH and .SH NAME repeats the
\* synopsis and is not counted)
PrintedLetters ==
  Sum([k \in 1..Len(Emitted) |->
         IF Emitted[k].m \in {"TH", "NAME"} THEN 0
         ELSE Letters(Emitted[k].body)
                + (IF Emitted[k].m = "TP" THEN Letters(Emitted[k].tag) ELSE 0)])

\* the consumed lexemes tile the input read so far, and text pushed back
\* is read again from where it started
ConsumedOnce ==
  /\ \A k \in 1..Len(Consumed) :
       Consumed[k].from = (IF k = 1 THEN 0 ELSE Consumed[k - 1].to)
  /\ \A k \in 1..(Len(hist) - 1) : hist[k].less => hist[k + 1].from = hist[k].from
  /\ (status = "done" /\ Consumed # <<>>) => Consumed[Len(Consumed)].to = pos

\* C5: every character of the input is consumed exactly once, pushed-back
\* text is consumed again exactly once, and at the end of the run no input
\* is missing from the output other than the divider and blank lines that
\* rules discard.
C5_NoInputDropped ==
  /\ ConsumedOnce
  /\ status = "done" => (pos = Len(input) /\ KeptLetters <= PrintedLetters)

(***************************************************************************)
(* Block quotes, tables and the Makefile example: the end of a block.      *)
(***************************************************************************)
\* the place in text where the line that holds place j starts
LineStart(text, j) ==
  CHOOSE i \in 1..j :
    /\ i = 1 \/ text[i - 1] = NL
    /\ \A m \in i..(j - 1) : text[m] # NL

\* text with at most k leading spaces taken from every line
StripLines(text, k) ==
  LET gone(j) == /\ j - LineStart(text, j) < k
                 /\ \A m \in LineStart(text, j)..j : text[m] = SP
      kept == SelectSeq([j \in 1..Len(text) |-> j], LAMBDA j : ~gone(j))
  IN  [n \in 1..Len(kept) |-> text[kept[n]]]

\* the block quote re-indented to four spaces: the lines of the accumulated
\* text, less the spaces its first line has beyond four
Reindented4(text) == StripLines(text, strspn(text, {SP}) - 4)

LastOut == out[Len(out)]

\* at pos stands a blank line, and after it a line of at most three spaces
\* and then a character that is neither a space nor a newline
BlankThenShallow ==
  /\ pos < Len(input)
  /\ input[pos + 1] = NL
  /\ \E n \in 0..3 :
       /\ pos + 1 + n < Len(input)
       /\ \A j \in 1..n : input[pos + 1 + j] = SP
       /\ input[pos + 2 + n] \notin {SP, NL}

PushbackRules == {"bq_end", "table_end", "make_end"}

\* a rule that is active in the default mode, or the default rule
DefaultMode(act) ==
  act = "ECHO" \/ \E i \in 1..Len(Rules) : Rules[i].id = act /\ "INITIAL" \in Rules[i].sc

\* the rule that ran after a pushback started where the pushed-back lexeme
\* started, and is a rule of the default mode
PushedBackIsReread ==
  \A k \in 1..(Len(hist) - 1) :
    hist[k].act \in PushbackRules =>
      hist[k + 1].from = hist[k].from /\ DefaultMode(hist[k + 1].act)

\* the step that ends a block quote, a table or the Makefile example
BlockEnds ==
  /\ (status = "run" /\ yy_act = "none" /\ yy_start = "BQ" /\ BlankThenShallow)
       => yy_act' = "bq_end"
  /\ (Acting("bq_end") \/ Acting("bq_eof"))
       => /\ out' = Append(out, Chunk("EX", <<>>, Reindented4(esc(g_buf).buf)))
          /\ pos' = pos - yyleng
          /\ yy_start' = "INITIAL"
          /\ g_buf' = <<>>
  /\ (Acting("table_end") \/ Acting("make_end"))
       => /\ out' = Append(out, Chunk("nf", <<>>, esc(g_buf).buf))
          /\ pos' = pos - yyleng
          /\ yy_start' = "INITIAL"
          /\ g_buf' = <<>>

\* C6: a block quote ends at a blank line followed by a line of at most
\* three spaces and a non-blank character, or at the end of the input; the
\* literal block printed then is the accumulated lines re-indented to four
\* spaces; the boundary text is not consumed: the scanner is back in the
\* default mode before it, and a default-mode rule reads it next.  The
\* boundary line that ends a table or the Makefile example is pushed back
\* in the same way.
C6_BlockEndPushesBack == [][BlockEnds]_vars /\ []PushedBackIsReread

\* a block quote whose first line had five spaces was ended by a boundary,
\* printed with four, and the boundary was read again by the blank-line rule
C6_Witness ==
  \E k \in 1..(Len(hist) - 1) :
    /\ hist[k].act = "bq_end"
    /\ SubSeq(input, hist[k].from + 1, hist[k].from + 2) = <<NL, "a">>
    /\ hist[k + 1].act = "blank"
    /\ k + 2 <= Len(hist) /\ hist[k + 2].act = "par"
    /\ SubSeq(input, 1, 6) = <<SP, SP, SP, SP, SP, "a">>
    /\ \E n \in 1..Len(out) :
         out[n].m = "EX" /\ SubSeq(out[n].body, 1, 5) = <<SP, SP, SP, SP, "a">>

(***************************************************************************)
(* indent and esc as functions                                             *)
(***************************************************************************)
Spaces(n) == [j \in 1..n |-> SP]

\* text with n spaces put before every line
PadLines(text, n) ==
  Concat([j \in 1..Len(text) |->
            IF j = 1 \/ text[j - 1] = NL THEN Spaces(n) \o <<text[j]>>
            ELSE <<text[j]>>])

IndentDone == call.fn = "indent" /\ call.st.pc = "done"

\* C7: indent with a positive number of spaces puts exactly that many
\* spaces before every line and keeps every character of the text, in
\* order (the case of a function example indented by less than four).
C7_PositiveIndentPrepends ==
  (IndentDone /\ call.spaces > 0)
    => call.st.buf = PadLines(call.s, call.spaces)

\* C8: indent with a negative number of spaces takes from each line only
\* spaces of the run at its very start, at most as many as asked; after the
\* first other character of a line the rest passes unchanged, on the first
\* line too, also when the text starts with a character that is no space.
C8_NegativeIndentStripsLeadingOnly ==
  (IndentDone /\ call.spaces < 0)
    => call.st.buf = StripLines(call.s, 0 - call.spaces)

\* the length of the escaped text of the input of esc, without terminator
EscapedLen ==
  call.n + Len(call.tail)
    + Cardinality({k \in 1..Len(call.tail) : call.tail[k] = BSL})

\* C9: esc never writes outside g_esc_buf: when the escaped text and its
\* terminator do not fit, esc dies before any write at an index at or past
\* the capacity; when they fit, esc returns the whole escaped text.
C9_EscStaysInBuffer ==
  call.fn = "esc" =>
    /\ call.maxw < BUFLEN
    /\ call.pc = "die" => EscapedLen + 1 > BUFLEN
    /\ call.pc = "done" => (EscapedLen + 1 <= BUFLEN /\ call.dst = EscapedLen)

(***************************************************************************)
(* Ordered lists                                                           *)
(***************************************************************************)
HasSecondLine(buf) == index(buf, NL) # 0 /\ index(buf, NL) < Len(buf)
SecondLineIndented(buf) == HasSecondLine(buf) /\ buf[index(buf, NL) + 1] = SP

\* an item is about to be printed
OlPrints ==
  /\ Acting("ol_item") \/ Acting("ol_end") \/ Acting("ol_eof")
  /\ g_buf # <<>>

\* the item without the leading spaces of its lines
OlText == StripLines(g_buf, Len(g_buf))
OlTag == SubSeq(OlText, 1, strspn(OlText, OlLabel))
OlBody ==
  LET rest == From(OlText, Len(OlTag) + 1)
  IN  From(rest, strspn(rest, {SP}) + 1)

\* the run ends in this step and nothing is printed: a text routine died of
\* a full buffer, or wrote outside one and left the run undefined
EndsUnprinted == status' \in {"abort", "ub"} /\ out' = out

\* the step that prints an item: tagged when hang, else a plain paragraph
OlRenders(hang) ==
  OlPrints =>
    \/ EndsUnprinted
    \/ /\ Len(out') = Len(out) + 1
       /\ IF hang THEN out'[Len(out')] = Chunk("TP", OlTag, esc(OlBody).buf)
          ELSE out'[Len(out')].m = "P"

\* C10: an ordered-list item is printed as a tagged paragraph, its label
\* the tag and the rest the body, when it has no second line or its second
\* line starts with a space; it is printed as a plain paragraph only when
\* it has a second line that does not start with a space.
C10_OlHangingDecision ==
  [][OlRenders(~HasSecondLine(g_buf) \/ SecondLineIndented(g_buf))]_vars

\* an item of one line was printed as a tagged paragraph
C10_Witness ==
  \E k \in 1..Len(hist) :
    /\ hist[k].act \in {"ol_end", "ol_eof"}
    /\ k > 1 /\ hist[k - 1].act = "ol_item"
    /\ out # <<>> /\ LastOut.m = "TP" /\ LastOut.tag = <<"1", ".">>

\* C10 as stated: an ordered-list item is printed as a tagged paragraph if
\* its second line starts with a space, and otherwise, also when it has no
\* second line, as a plain paragraph.
C10_AsStated == [][OlRenders(SecondLineIndented(g_buf))]_vars

\* text without its backslashes
NoBsl(text) == SelectSeq(text, LAMBDA c : c # BSL)

\* the item after its label and the spaces behind the label, the lines that
\* follow the first one as they stand in the input
OlRawBody ==
  LET first == From(g_buf, strspn(g_buf, {SP}) + 1)
      rest == From(first, strspn(first, OlLabel) + 1)
  IN  From(rest, strspn(rest, {SP}) + 1)

\* the step that prints an item of two or more lines: tagged with the given
\* body when the second line is indented, else a plain paragraph that holds
\* the whole item, label included
OlItemRenders(body) ==
  (OlPrints /\ HasSecondLine(g_buf)) =>
    \/ EndsUnprinted
    \/ /\ Len(out') = Len(out) + 1
       /\ IF SecondLineIndented(g_buf)
          THEN out'[Len(out')] = Chunk("TP", OlTag, esc(body).buf)
          ELSE /\ out'[Len(out')].m = "P"
               /\ NoBsl(out'[Len(out')].body) = NoBsl(OlText)

\* C11: an ordered-list item whose second line is indented is printed as a
\* tagged block: the tag is exactly the label, the body is the rest of the
\* item with the leading spaces of every line removed ("1. foo\n   bar\n"
\* gives the tag "1." and the body "foo\nbar\n"); an item whose second line
\* is not indented is printed as a plain paragraph holding the whole text,
\* label included.
C11_OlRendering == [][OlItemRenders(OlBody)]_vars

\* the item "1. a\n a\n" was printed with the tag "1." and the body "a\na\n"
C11_Witness ==
  /\ Len(input) >= 8
  /\ SubSeq(input, 1, 8) = <<"1", ".", SP, "a", NL, SP, "a", NL>>
  /\ \E k \in 1..Len(hist) :
       hist[k].act \in {"ol_item", "ol_end", "ol_eof"} /\ hist[k].from >= 8
  /\ out # <<>>
  /\ out[1] = Chunk("TP", <<"1", ".">>, <<"a", NL, "a", NL>>)

\* C11 as stated: the body of the tagged block keeps the continuation line
\* as it is in the input ("1. foo\n   bar\n" gives the body "foo\n   bar\n").
C11_AsStated == [][OlItemRenders(OlRawBody)]_vars

(***************************************************************************)
(* Function headers                                                        *)
(***************************************************************************)
\* the steps of hist, in order, that ran the rule act
StepsOf(act) ==
  SelectSeq([k \in 1..Len(hist) |-> k], LAMBDA k : hist[k].act = act)

\* the identifier that follows "extern " in a prototype
ExternId(text) ==
  LET rest == From(text, Len(Str.Extern) + 1)
  IN  SubSeq(rest, 1, strspn(rest, CID.cs))

\* text starts with "extern ", an identifier that starts with b or u, an
\* optional space and an opening parenthesis
IsExternProto(text) ==
  LET id == ExternId(text)
      after == From(text, Len(Str.Extern) + Len(id) + 1)
  IN  /\ Len(text) > Len(Str.Extern)
      /\ SubSeq(text, 1, Len(Str.Extern)) = Str.Extern
      /\ id # <<>> /\ id[1] \in {"b", "u"}
      /\ \/ CharAt(after, 1) = "("
         \/ CharAt(after, 1) = SP /\ CharAt(after, 2) = "("

\* the prototype without "extern ", the text after its first line moved
\* left by the width of the qualifier
ShiftedLeft(text) ==
  LET s == esc(From(text, Len(Str.Extern) + 1)).buf
      nl == index(s, NL)
      rest == From(s, nl + 1)
  IN  IF Len(rest) > Len(Str.Extern)
      THEN SubSeq(s, 1, nl) \o From(rest, Len(Str.Extern) + 1)
      ELSE s

\* the run ended in open_deffile: the file system refused the page
PageRefused == status = "abort" /\ stderr \in open_deffile \ {"ok"}

\* C12: every function header whose prototype starts with "extern ", an
\* identifier N that starts with b or u, an optional space and "(" opens
\* the page man3/N.3, names it exactly N, and writes as synopsis the
\* prototype without the qualifier, the following text moved left by the
\* qualifier's width; only the file system's refusal of the page stands
\* in the way.
C12_ExternHeader ==
  \A j \in 1..Len(StepsOf("func_head")) :
    LET text == Lexeme(hist[StepsOf("func_head")[j]])
    IN  IsExternProto(text) =>
          \/ j > Len(files) /\ PageRefused
          \/ /\ j <= Len(files)
             /\ files[j].path = Str.man3 \o ExternId(text) \o Str.dot3
             /\ files[j].text[2] = Chunk("NAME", ExternId(text), <<>>)
             /\ files[j].text[3] = Chunk("SYNOPSIS", <<>>, ShiftedLeft(text))

(***************************************************************************)
(* Progress and termination                                                *)
(***************************************************************************)
EofRules == {"ol_eof", "ul_eof", "bq_eof"}

\* every match before the end of the input is at least one character long
MatchConsumes ==
  (status = "run" /\ yy_act # "none" /\ yy_act \notin EofRules
     /\ yy_act # "yyterminate") => yyleng >= 1

\* where the lexeme being handled starts
LexStart == IF status = "run" /\ yy_act # "none" THEN pos - yyleng ELSE pos

\* a pushback hands zero characters on, switches to the default mode, and
\* the step after it consumes at least one character
PushbackThenConsume ==
  \A k \in 1..Len(hist) :
    hist[k].less =>
      /\ k = Len(hist) => (yy_start = "INITIAL" /\ LexStart = hist[k].from)
      /\ k < Len(hist) =>
           /\ ~hist[k + 1].less
           /\ hist[k + 1].from = hist[k].from
           /\ hist[k + 1].to > hist[k + 1].from

\* the run ends only by yyterminate() or die(): until then the scanner is
\* about to match, or about to run the action of a rule it has
HasNextStep ==
  /\ status \in {"run", "done", "abort"}
  /\ status = "run" =>
       yy_act \in {"none", "ECHO", "yyterminate"} \cup EofRules
                    \cup {Rules[i].id : i \in 1..Len(Rules)}

\* what is left to do: the input from the start of the current lexeme on;
\* at one place, a mode with a pushback comes before the default mode and
\* matching comes before the action; the end of the run comes last
Variant ==
  6 * (Len(input) - LexStart)
    + (IF yy_start # "INITIAL" THEN 2 ELSE 0)
    + (IF yy_act = "none" THEN 1 ELSE 0)
    + (IF status = "run" THEN 2 ELSE 0)

\* C13: the scanner always makes progress and every run on a finite input
\* ends, completed or aborted: every match before the end of the input
\* consumes at least one character, a pushback is followed by a step that
\* consumes at least one character, the scanner stops only when the run has
\* ended, and every step lowers a measure that is never negative, so no
\* sequence of steps goes on forever.
C13_ProgressAndTermination ==
  /\ [](MatchConsumes /\ PushbackThenConsume /\ HasNextStep /\ Variant >= 0)
  /\ [][Variant' < Variant]_vars

\* a run that pushed text back, read it again and then completed
C13_Witness ==
  /\ status = "done"
  /\ pos = Len(input)
  /\ \E k \in 1..(Len(hist) - 1) :
       hist[k].less /\ hist[k + 1].to > hist[k + 1].from

(***************************************************************************)
(* The function-page machine: BODY and EXAMPLE                             *)
(***************************************************************************)
\* at pos starts a group of non-blank lines whose last line ends in a colon
\* and is followed by a blank line
ColonGroupAhead ==
  LET end == pos + MatchLen(RE_nonblanks, input, pos)
  IN  /\ end > pos + 1
      /\ input[end - 1] = ":"
      /\ end < Len(input) /\ input[end + 1] = NL

\* the step appends one chunk of kind m to the open page, leaves that page
\* the current one and open, and goes to the start condition sc
WritesPage(m, sc) ==
  /\ g_def_file \in OpenFiles
  /\ g_def_file' = g_def_file
  /\ Len(files') = Len(files)
  /\ files'[g_def_file].open
  /\ Len(files'[g_def_file].text) = Len(files[g_def_file].text) + 1
  /\ files'[g_def_file].text[Len(files'[g_def_file].text)].m = m
  /\ yy_start' = sc

\* the run ends in this step and nothing is written: a text routine died of
\* a full buffer, or wrote outside one and left the run undefined
EndsUnwritten == status' \in {"abort", "ub"} /\ files' = files

ColonThenExample ==
  /\ (status = "run" /\ yy_act = "none" /\ yy_start = "FUNC_BODY"
        /\ ColonGroupAhead) => yy_act' = "func_colon"
  /\ Acting("func_colon") => (WritesPage("P", "FUNC_EX") \/ EndsUnwritten)
  /\ Acting("func_ex") => (WritesPage("brEX", "FUNC_BODY") \/ EndsUnwritten)

\* the steps of hist that matched a rule of the file (not the default rule)
Matched == SelectSeq(hist, LAMBDA h : h.act # "ECHO")

\* the rule matched after a colon group is the example rule, and the
\* example rule is matched only then; the machine is in EXAMPLE exactly
\* between the two
OneExamplePerColon ==
  /\ \A k \in 1..Len(Matched) :
       /\ (Matched[k].act = "func_colon" /\ k < Len(Matched))
            => Matched[k + 1].act = "func_ex"
       /\ Matched[k].act = "func_ex"
            => (k > 1 /\ Matched[k - 1].act = "func_colon")
  /\ (status = "run" /\ yy_act = "none") =>
       (yy_start = "FUNC_EX"
          <=> (Matched # <<>> /\ Matched[Len(Matched)].act = "func_colon"))

\* C14: in BODY a line group whose last line ends in a colon and is followed
\* by a blank line is written to the open page as a description paragraph
\* and moves the machine to EXAMPLE; the next matched block, and only that
\* one, is written to the same page as a literal example block after a
\* line-break marker, and the machine is then back in BODY with the same
\* page still open.
C14_ColonThenOneExample == [][ColonThenExample]_vars /\ []OneExamplePerColon

\* a colon group and its example were written to the page, and the machine
\* is back in BODY with the page open
C14_Witness ==
  /\ Len(Matched) >= 2
  /\ Matched[Len(Matched) - 1].act = "func_colon"
  /\ Matched[Len(Matched)].act = "func_ex"
  /\ yy_start = "FUNC_BODY"
  /\ g_def_file \in OpenFiles
  /\ LET text == files[g_def_file].text
     IN  text[Len(text) - 1].m = "P" /\ text[Len(text)].m = "brEX"

(***************************************************************************)
(* Headings, dividers and the paragraph catch-all                          *)
(***************************************************************************)
\* place p is the start of a line
AtLineStart(p) == p = 0 \/ input[p] = NL

H1Ahead(p) == MatchLen(RE_h1, input, p) > 0
H2Ahead(p) == MatchLen(RE_h2, input, p) > 0
DividerAhead(p) ==
  MatchLen(RE_divider, input, p) > 0 /\ ~H1Ahead(p) /\ ~H2Ahead(p)

\* the rules that print a level-1 heading, or open the function pages with
\* the banner "The functions"
H1Rules == {"h1", "title", "uni_head", "func_section"}

\* C15: in the default mode a line of three or more characters underlined
\* with three or more '-' is always taken by a level-1 heading rule, one
\* underlined with three or more '.' by the level-2 heading rule, and a
\* line of three or more '=' by the divider rule, whatever line follows:
\* the paragraph catch-all never takes a heading or a divider.
C15_HeadingsAlwaysRecognized ==
  (status = "run" /\ yy_start = "INITIAL" /\ yy_act # "none"
     /\ AtLineStart(LexStart)) =>
    /\ H1Ahead(LexStart) => yy_act \in H1Rules
    /\ H2Ahead(LexStart) => yy_act = "h2"
    /\ DividerAhead(LexStart) => yy_act = "divider"

\* a rule of the default mode other than the blank-line rule and the
\* paragraph catch-all matches at place p
StructuralAhead(p) ==
  \E i \in 1..Len(Rules) :
    /\ "INITIAL" \in Rules[i].sc
    /\ Rules[i].id \notin {"blank", "par"}
    /\ MatchLen(Rules[i].re, input, p) > 0

\* C16: in the default mode a non-blank line that no structural rule
\* matches is taken by the paragraph catch-all, which prints it as an
\* ordinary paragraph; also a line that begins with a digit and no list
\* marker, with a dash and no space, or with one to three spaces.
C16_CatchAllTakesTheRest ==
  (status = "run" /\ yy_start = "INITIAL" /\ yy_act # "none"
     /\ AtLineStart(LexStart)
     /\ MatchLen(NONBLANK, input, LexStart) > 0
     /\ ~StructuralAhead(LexStart))
    => yy_act = "par"

\* at place p of text (0-based) stands a whole identifier, the word name,
\* followed by at most one space and an opening parenthesis
WholeIdAt(text, p, name) ==
  LET after == From(text, p + Len(name) + 1)
  IN  /\ p + Len(name) <= Len(text)
      /\ SubSeq(text, p + 1, p + Len(name)) = name
      /\ p = 0 \/ text[p] \notin CID.cs
      /\ CharAt(after, 1) \notin CID.cs
      /\ \/ CharAt(after, 1) = "("
         \/ CharAt(after, 1) = SP /\ CharAt(after, 2) = "("

\* text holds a whole identifier that starts with b or u and is followed by
\* at most one space and an opening parenthesis
HasFuncId(text) ==
  \E p \in 0..(Len(text) - 1), n \in 1..Len(text) :
    /\ p + n <= Len(text)
    /\ text[p + 1] \in {"b", "u"}
    /\ \A k \in (p + 1)..(p + n) : text[k] \in CID.cs
    /\ WholeIdAt(text, p, SubSeq(text, p + 1, p + n))

\* C17: the name taken from a function header is a whole identifier of the
\* prototype that starts with b or u and stands before at most one space
\* and an opening parenthesis, never the tail of a longer identifier such
\* as cstr2bstr; the run dies when the header holds no such identifier.
C17_NameIsWholeIdentifier ==
  \A j \in 1..Len(StepsOf("func_head")) :
    LET text == Lexeme(hist[StepsOf("func_head")[j]])
    IN  /\ j <= Len(files) =>
             LET name == files[j].text[2].tag
             IN  /\ name # <<>> /\ name[1] \in {"b", "u"}
                 /\ \E p \in 0..(Len(text) - 1) : WholeIdAt(text, p, name)
        /\ ~HasFuncId(text) =>
             (j > Len(files) /\ status = "abort" /\ stderr = "die")

(***************************************************************************)
(* The accumulation buffer                                                 *)
(***************************************************************************)
\* the rules that take the first line of a block, and those that add to it
BlockStarts == {"ol_item", "ul_item", "bq_start", "make_start", "table_start"}
BlockConts ==
  {"ol_cont", "ul_cont", "bq_cont", "bq_blank", "make_cont", "table_cont"}

\* the step of hist that took the first line of the block being accumulated
BlockFirst ==
  CHOOSE k \in 1..Len(hist) :
    hist[k].act \in BlockStarts /\ \A j \in (k + 1)..Len(hist) : hist[j].act \notin BlockStarts

\* the lines taken for the block being accumulated, in order: every step
\* from the block's first line on but those of the default rule
BlockLines ==
  LET steps == SelectSeq([k \in 1..Len(hist) |-> k],
                         LAMBDA k : k >= BlockFirst /\ hist[k].act # "ECHO")
  IN  Concat([n \in 1..Len(steps) |-> Lexeme(hist[steps[n]])])

\* the buffer is empty outside the accumulating modes; in one, it holds the
\* lines taken since the block's first line, and nothing else
BufferOwned ==
  (status = "run") =>
    IF yy_start \notin Accumulating THEN g_buf = <<>>
    ELSE /\ \E k \in 1..Len(hist) : hist[k].act \in BlockStarts
         /\ \A j \in (BlockFirst + 1)..Len(hist) :
              hist[j].act \in BlockConts \cup {"ECHO"}
         /\ g_buf = BlockLines

\* the step prints what the emitter r makes of the buffer and leaves b in
\* it, unless the run ends in the step: before the printing, or after it
\* when the next item's first line does not fit the buffer
Finalizes(r, b) ==
  \/ EndsUnprinted
  \/ /\ out' = out \o r.chunks
     /\ Len(r.chunks) = 1
     /\ status' = "run" => g_buf' = b

BlockFinalized ==
  /\ (Acting("ol_item") /\ yy_start = "OL") => Finalizes(ol(g_buf), yytext)
  /\ (Acting("ol_end") \/ Acting("ol_eof")) => Finalizes(ol(g_buf), <<>>)
  /\ (Acting("ul_item") /\ yy_start = "UL") => Finalizes(ul(g_buf), yytext)
  /\ (Acting("ul_end") \/ Acting("ul_eof")) => Finalizes(ul(g_buf), <<>>)
  /\ (Acting("bq_end") \/ Acting("bq_eof")) => Finalizes(bq(g_buf), <<>>)
  /\ (Acting("make_end") \/ Acting("table_end")) => Finalizes(nf(g_buf), <<>>)
  /\ ((Acting("ol_item") \/ Acting("ul_item")) /\ yy_start = "INITIAL")
       => (out' = out /\ (status' = "run" => g_buf' = yytext))

\* C18: at most one block accumulates at a time: outside the accumulating
\* modes the buffer is empty; in one it holds exactly the lines taken since
\* the block's first line; the step that finalizes a list item, a block
\* quote, a table or the Makefile example prints that text, nothing left
\* over from an earlier block, and leaves the buffer empty (or holding the
\* first line of the next list item).
C18_OneBlockAccumulates == []BufferOwned /\ [][BlockFinalized]_vars

\* a list item and then a block quote were accumulated and printed, each
\* with its own lines only
C18_Witness ==
  /\ status = "run" /\ yy_start = "INITIAL" /\ g_buf = <<>>
  /\ Len(out) = 2
  /\ out[1] = Chunk("TP", <<"1", ".">>, <<"a", NL>>)
  /\ out[2] = Chunk("EX", <<>>, <<SP, SP, SP, SP, "a", NL>>)

(***************************************************************************)
(* Writes to and closes of the function page                               *)
(***************************************************************************)
PageWrites == {"func_colon", "func_par", "func_ex"}

\* the number of steps of hist[1..k] that ran the rule act
CountOf(act, k) == Cardinality({j \in 1..k : hist[j].act = act})

\* every write and every close so far came after a header that no close
\* had followed yet: a page was open, and none was closed twice
WritesWhileOpen ==
  \A k \in 1..Len(hist) :
    /\ hist[k].act \in PageWrites \cup {"func_exit"} =>
         \E h \in 1..(k - 1) :
           /\ hist[h].act = "func_head"
           /\ \A j \in (h + 1)..(k - 1) : hist[j].act # "func_exit"
    /\ CountOf("func_exit", k) <= CountOf("func_head", k)

\* a rule that writes to the page or closes it is about to run: the current
\* page is open
PageOpenWhenUsed ==
  (status = "run" /\ yy_act \in PageWrites \cup {"func_exit"})
    => g_def_file \in OpenFiles

\* C19: every write to the function page (paragraph, example) and every
\* close of it happens while a page is open: none before the first header
\* has opened one, none between a terminator and the next header, and no
\* page is closed twice; the run never uses a page that is not open.
C19_PageUsedOnlyWhileOpen == WritesWhileOpen /\ PageOpenWhenUsed

\* a page was written, closed by a terminator, and the scanner is back in
\* the default mode
C19_Witness ==
  /\ \E k \in 1..Len(hist) : hist[k].act = "func_par"
  /\ hist # <<>> /\ hist[Len(hist)].act = "func_exit"
  /\ status = "run" /\ yy_start = "INITIAL"
  /\ Len(files) = 1 /\ OpenFiles = {}

(***************************************************************************)
(* Escaping, once                                                          *)
(***************************************************************************)
Backslashes(text) == Cardinality({k \in 1..Len(text) : text[k] = BSL})

\* the backslashes of printed text from place k on, but those that esc put
\* before an apostrophe or a period at the start of a line
RECURSIVE PrintedBackslashes(_, _)
PrintedBackslashes(text, k) ==
  IF k > Len(text) THEN 0
  ELSE IF text[k] # BSL THEN PrintedBackslashes(text, k + 1)
  ELSE IF CharAt(text, k + 1) = BSL THEN 2 + PrintedBackslashes(text, k + 2)
  ELSE IF CharAt(text, k + 1) \in {APO, DOT} /\ (k = 1 \/ text[k - 1] = NL)
       THEN PrintedBackslashes(text, k + 2)
  ELSE 1 + PrintedBackslashes(text, k + 1)

\* the backslashes printed by the emitters (the default rule is no emitter)
EmittedBackslashes ==
  Sum([k \in 1..Len(Emitted) |->
         IF Emitted[k].m = "ECHO" THEN 0
         ELSE PrintedBackslashes(Emitted[k].body, 1)
                + PrintedBackslashes(Emitted[k].tag, 1)])

\* C20: every emitter applies esc exactly once to the text it prints: when
\* the run has completed and every block has been printed, each backslash
\* of the input stands in the output as exactly two backslashes; also for
\* an ordered-list item printed as a plain paragraph.
C20_EscapedExactlyOnce ==
  (status = "done" /\ yy_start \notin Accumulating)
    => EmittedBackslashes = 2 * Backslashes(input)

====
